---- MODULE Spec2Model ----
(***************************************************************************)
(* State-machine model of the Turion local tunnel client                    *)
(* (tools/libturion_source): LocalTunnel open/start/close/read_sample,     *)
(* LocalTunnelConnection::process_events, BambuSample buffer hand-off and  *)
(* the Bambu_ReadSample return-code mapping.                               *)
(***************************************************************************)
EXTENDS Integers, Sequences, FiniteSets, TLC

(* ------------------------------ bounds --------------------------------- *)
\* number of bytes the device sends
MaxStream == 40
\* control packets that may wait unflushed in the TLS writer
MaxPending == 1

(* ------------------------- program constants --------------------------- *)
\* size of the raw frame header, [0x0u8; 16]
HeaderLen == 16
\* size of the stack buffer of the body loop, [0u8; 4096]
ChunkSize == 4096
\* smallest non-empty capacity Vec<u8>::reserve allocates
MinNonZeroCap == 8
\* the would-block return code of the foreign-call layer
BAMBU_WOULD_BLOCK_ERROR == 2

Min(a, b) == IF a < b THEN a ELSE b
Max(a, b) == IF a > b THEN a ELSE b

\* largest value of an i32 (BambuSample.size, itrack, flags)
I32Max == 2147483647

\* a length below 2^32 as its two 16-bit halves, so that lengths above
\* I32Max can be written
Usize(n) == [hi |-> n \div 65536, lo |-> n % 65536]

\* `x as i32` for a length given by its halves: the low 32 bits read as a
\* signed number, so lengths above I32Max come out as x - 2^32
AsI32(x) == (IF x.hi >= 32768 THEN x.hi - 65536 ELSE x.hi) * 65536 + x.lo

\* four little-endian bytes of a u32
LE32(n) == << n % 256, (n \div 256) % 256, (n \div 65536) % 256, (n \div 16777216) % 256 >>

\* u32 read from four little-endian bytes starting at offset i of b
U32At(b, i) == b[i] + 256 * b[i + 1] + 65536 * b[i + 2] + 16777216 * b[i + 3]

\* i32 read from four little-endian bytes starting at offset i of b
I32At(b, i) ==
    b[i] + 256 * b[i + 1] + 65536 * b[i + 2]
        + 16777216 * (IF b[i + 3] >= 128 THEN b[i + 3] - 256 ELSE b[i + 3])

(* --------------------------- frame protocol ---------------------------- *)
\* impl From<[u8; 16]> for CameraCmdFrameHeader: raw reinterpretation
CameraCmdFrameHeader(raw) ==
    [frame_len |-> U32At(raw, 1),
     itrack    |-> I32At(raw, 5),
     flags     |-> I32At(raw, 9),
     padding   |-> U32At(raw, 13)]

NoHeader == [frame_len |-> 0, itrack |-> 0, flags |-> 0, padding |-> 0]

\* the request types the callers use (Bambu_StartStream: 0x3000 or 0)
ReqTypes == {0, 12288}

\* size of the user and pass fields of CameraCmdPacket, [u8; 32]
CredLen == 32

\* a credential copied into the front of a zeroed field
ZeroPadded(cred) == [i \in 1..CredLen |-> IF i <= Len(cred) THEN cred[i] ELSE 0]

CameraCmdPacket_start_bit_always(req_type, user, pass, is_start) ==
    [ok    |-> Len(user) <= CredLen /\ Len(pass) <= CredLen,
     bytes |-> LE32(64) \o LE32(req_type) \o LE32(0) \o LE32(0)
                 \o ZeroPadded(user) \o ZeroPadded(pass)]

\* CameraCmdPacket::new followed by as_bytes: ok is FALSE when one of the
\* slices res.user[..user.len()], res.pass[..pass.len()] is out of range
\* (the call panics); LE32 of a negative req_type is its two's complement
CameraCmdPacket(req_type, user, pass, is_start) ==
    [ok    |-> Len(user) <= CredLen /\ Len(pass) <= CredLen,
     bytes |-> LE32(IF is_start THEN 64 ELSE 0) \o LE32(req_type) \o LE32(0) \o LE32(0)
                 \o ZeroPadded(user) \o ZeroPadded(pass)]

\* core::mem::size_of::<CameraCmdPacket>(): cmd: [u32; 4], user, pass
PacketLen == 4 * 4 + 2 * CredLen

\* credentials: "elysia", "ego", and one byte more than a field holds
Elysia == << 101, 108, 121, 115, 105, 97 >>
Ego == << 101, 103, 111 >>
LongCred == [i \in 1..(CredLen + 1) |-> 97]

\* the settings a session is created with
SessionSettings ==
    { [username |-> Elysia, password |-> Ego],
      [username |-> LongCred, password |-> Ego] }

(* ----------------------- the device's byte stream ---------------------- *)
\* declared frame lengths: empty, below and at the smallest Vec capacity
FrameLens == {0, 1, MinNonZeroCap}

\* number of frames whose headers fit in the stream
NFrames == MaxStream \div HeaderLen

\* payload byte j of frame k: every payload position has its own value
BodyByte(k, j) == 20 * k + j

FrameBytes(k, len) ==
    LE32(len) \o LE32(k) \o LE32(2 * k) \o LE32(0)
        \o [j \in 1..len |-> BodyByte(k, j)]

RECURSIVE StreamBytes(_, _)
StreamBytes(lens, k) ==
    IF k > Len(lens) THEN << >>
    ELSE FrameBytes(k, lens[k]) \o StreamBytes(lens, k + 1)

(* ------------------------------ errors --------------------------------- *)
OkRes == [ty |-> "ok", kind |-> "ok"]
TunnelErr(msg) == [ty |-> "LocalTunnelError", kind |-> msg]
IoErr(kind) == [ty |-> "io", kind |-> kind]

(* -------------------------- foreign-call layer ------------------------- *)
Bambu_ReadSample_would_block_only(err) ==
    IF err.ty = "ok" THEN 0
    ELSE IF err.ty = "io" /\ err.kind = "WouldBlock" THEN BAMBU_WOULD_BLOCK_ERROR
    ELSE -1

\* Bambu_ReadSample: the return code for the result of read_sample
Bambu_ReadSample(err) ==
    IF err.ty = "ok" THEN 0
    ELSE IF err.ty = "io" /\ (err.kind = "WouldBlock" \/ err.kind = "Interrupted")
    THEN BAMBU_WOULD_BLOCK_ERROR
    ELSE -1

\* Bambu_Open / Bambu_StartStreamEx: 0 or -1; Bambu_Close returns nothing
ApiCode(op, err) ==
    IF op = "read_sample" THEN Bambu_ReadSample(err)
    ELSE IF op = "close" \/ err.ty = "ok" THEN 0
    ELSE -1

(* ------------------------------- state --------------------------------- *)
VARIABLES
    frames,            \* declared lengths of the frames the device sends
    stream,            \* the bytes the device sends, in order
    plain,             \* stream bytes received by the TLS layer, unread
    pos,               \* stream bytes read so far by the session
    link,              \* "up", or "closed" once the TLS layer has the peer's close_notify
    tx_pending,        \* control packets written to the TLS writer, unflushed
    conn_opt,          \* LocalTunnel.conn_opt is Some
    req_type_opt,      \* LocalTunnel.req_type_opt
    state_opt,         \* LocalTunnel.state_opt
    own_sample_buffer, \* LocalTunnel.own_sample_buffer
    sample,            \* the caller's BambuSample struct
    heap,              \* allocations handed to the caller, in order
    delivered,         \* number of successful read_sample calls
    pc,                \* "idle", or "drive" inside process_events
    ctx,               \* the call that is driving the transport
    last_io,           \* "none" before any drive; inside process_events "looping", or
                       \* "wouldblock" after a would-block complete_io; then "returned"
    ret,               \* the last call that returned and its result
    crash,             \* "none" or the panic that ended the process
    ub,                \* undefined behaviour performed so far
    settings,          \* LocalTunnel.settings: the credentials of the session
    arg,               \* the arguments of the last call of a pure function
    out                \* and its result

vars == << frames, stream, plain, pos, link, tx_pending,
           conn_opt, req_type_opt, state_opt, own_sample_buffer, sample, heap,
           delivered, pc, ctx, last_io, ret, crash, ub, settings, arg, out >>

transport == << plain, pos, link, tx_pending >>
session == << conn_opt, req_type_opt, state_opt, own_sample_buffer >>
memory == << sample, heap, delivered >>
pure == << arg, out >>

NoReq == [some |-> FALSE, val |-> 0]
SomeReq(r) == [some |-> TRUE, val |-> r]

\* Option<LocalTunnelState>
StNone == [tag |-> "None", header |-> NoHeader, data |-> << >>, cap |-> 0, remaining_bytes |-> 0]
StInitial == [StNone EXCEPT !.tag = "Initial"]
StProcessStream == [StNone EXCEPT !.tag = "ProcessStream"]
StReceivingSample(h, d, c, r) ==
    [tag |-> "ReceivingSample", header |-> h, data |-> d, cap |-> c, remaining_bytes |-> r]

NullPtr == 0
DanglingPtr == -1
WildPtr == -2

ZeroSample == [itrack |-> 0, size |-> 0, flags |-> 0, buffer |-> NullPtr, decode_time |-> 0]
\* what an uninitialised struct of the caller may hold
GarbageSample == [itrack |-> 7, size |-> 5, flags |-> 7, buffer |-> WildPtr, decode_time |-> 7]

NoCtx == [op |-> "none", can_block |-> FALSE, req |-> 0]
NoRet == [op |-> "none", err |-> OkRes, cls |-> "none", code |-> 0]
NoArg == [fn |-> "none"]
NoOut == [kind |-> "none"]

Init ==
    /\ frames \in [1..NFrames -> FrameLens]
    /\ stream = SubSeq(StreamBytes(frames, 1), 1,
                       Min(MaxStream, Len(StreamBytes(frames, 1))))
    /\ plain = 0
    /\ pos = 0
    /\ link = "up"
    /\ tx_pending = << >>
    /\ conn_opt = FALSE
    /\ req_type_opt = NoReq
    /\ state_opt = StNone
    /\ own_sample_buffer = FALSE
    /\ sample \in {ZeroSample, GarbageSample}
    /\ heap = << >>
    /\ delivered = 0
    /\ pc = "idle"
    /\ ctx = NoCtx
    /\ last_io = "none"
    /\ ret = NoRet
    /\ crash = "none"
    /\ ub = {}
    /\ settings \in SessionSettings
    /\ arg = NoArg
    /\ out = NoOut

Ret(op, err, cls) == [op |-> op, err |-> err, cls |-> cls, code |-> ApiCode(op, err)]

(* --------------------------- Vec<u8> model ----------------------------- *)
\* Vec::reserve(additional) on a vector of length len and capacity cap:
\* amortised growth, never below the smallest non-empty capacity
VecReserve(cap, len, additional) ==
    IF cap - len >= additional THEN cap
    ELSE Max(Max(2 * cap, len + additional), MinNonZeroCap)

\* Vec::clone: the copy is allocated with exactly len bytes
VecClone(v) == [bytes |-> v.bytes, cap |-> Len(v.bytes)]

(* ----------------------------- BambuSample ----------------------------- *)
\* an allocation handed to the caller, and what is left of it once freed
LiveBuf(bytes, cap) == [status |-> "live", cap |-> cap, bytes |-> bytes]
FreedBuf == [status |-> "freed", cap |-> 0, bytes |-> << >>]

set_buffer_size_from_header(s, header, v, h) ==
    LET allocated == v.cap > 0
    IN [ok |-> Len(v.bytes) = v.cap,
        sample |-> [itrack |-> header.itrack,
                    flags |-> header.flags,
                    buffer |-> IF allocated THEN Len(h) + 1 ELSE DanglingPtr,
                    size |-> AsI32(Usize(header.frame_len)),
                    decode_time |-> 0],
        heap |-> IF allocated THEN Append(h, LiveBuf(v.bytes, v.cap)) ELSE h]

\* BambuSample::set_buffer: the result has ok = FALSE when the assertion
\* data.len() == data.capacity() fails
set_buffer(s, header, v, h) ==
    LET n == Len(v.bytes)
        allocated == v.cap > 0
    IN [ok |-> n = v.cap,
        sample |-> [itrack |-> header.itrack,
                    flags |-> header.flags,
                    buffer |-> IF allocated THEN Len(h) + 1 ELSE DanglingPtr,
                    size |-> AsI32(Usize(n)),
                    decode_time |-> 0],
        heap |-> IF allocated THEN Append(h, LiveBuf(v.bytes, v.cap)) ELSE h]

destroy_buffer_keeps_size(s, h) ==
    IF s.size <= 0 THEN [sample |-> s, heap |-> h, ub |-> {}]
    ELSE [sample |-> s,
          heap |-> IF s.buffer \in 1..Len(h)
                   THEN [h EXCEPT ![s.buffer] = FreedBuf]
                   ELSE h,
          ub |-> IF s.buffer \notin 1..Len(h) THEN {"wild_free"}
                 ELSE IF h[s.buffer].status = "freed" THEN {"double_free"}
                 ELSE IF h[s.buffer].cap # s.size THEN {"bad_layout"}
                 ELSE {}]

\* BambuSample::destroy_buffer: Vec::from_raw_parts(buffer, size, size) dropped
destroy_buffer(s, h) ==
    IF s.size <= 0 THEN [sample |-> s, heap |-> h, ub |-> {}]
    ELSE [sample |-> [s EXCEPT !.size = 0],
          heap |-> IF s.buffer \in 1..Len(h)
                   THEN [h EXCEPT ![s.buffer] = FreedBuf]
                   ELSE h,
          ub |-> IF s.buffer \notin 1..Len(h) THEN {"wild_free"}
                 ELSE IF h[s.buffer].status = "freed" THEN {"double_free"}
                 ELSE IF h[s.buffer].cap # s.size THEN {"bad_layout"}
                 ELSE {}]

(* ------------------------------ LocalTunnel ---------------------------- *)
ensure_connected_always == TRUE

\* LocalTunnel::ensure_connected succeeds
ensure_connected == conn_opt

start_from_any_state(st) == TRUE

start_allowed_unless_receiving(st) == st.tag # "ReceivingSample"

\* the state match of start: None | Some(Initial) => {}
start_allowed(st) == st.tag \in {"None", "Initial"}

close_rejected_only_unset(st) == st.tag = "None"

\* the state match of close: None | Some(Initial) => bail!
close_rejected(st) == st.tag \in {"None", "Initial"}

not_started_only_unset(st) == st.tag = "None"

\* the first arm of the state match of read_sample: None | Some(Initial)
not_started(st) == st.tag \in {"None", "Initial"}

CanWrite == Len(tx_pending) < MaxPending

open_resets_on_error ==
    /\ crash = "none" /\ pc = "idle"
    /\ IF conn_opt \/ state_opt.tag # "None"
       THEN /\ ret' = Ret("open", TunnelErr("stream already opened"), "seq")
            /\ state_opt' = StInitial
            /\ UNCHANGED << conn_opt, req_type_opt, own_sample_buffer, crash >>
       ELSE \E outcome \in {"ok", "resolve_fail", "connect_fail", "handshake_fail"} :
              CASE outcome = "ok" ->
                     /\ conn_opt' = TRUE
                     /\ state_opt' = StInitial
                     /\ ret' = Ret("open", OkRes, "ok")
                     /\ UNCHANGED << req_type_opt, own_sample_buffer, crash >>
                [] outcome = "resolve_fail" ->
                     /\ crash' = "unwrap_resolve"
                     /\ UNCHANGED << session, ret >>
                [] OTHER ->
                     /\ ret' = Ret("open", IoErr("Other"), "conn")
                     /\ UNCHANGED << session, crash >>
    /\ UNCHANGED << frames, stream, transport, memory, pc, ctx, last_io, ub, settings, pure >>

\* LocalTunnel::open
open ==
    /\ crash = "none" /\ pc = "idle"
    /\ IF conn_opt \/ state_opt.tag # "None"
       THEN /\ ret' = Ret("open", TunnelErr("stream already opened"), "seq")
            /\ UNCHANGED << session, crash >>
       ELSE \E outcome \in {"ok", "resolve_fail", "connect_fail", "handshake_fail"} :
              CASE outcome = "ok" ->
                     /\ conn_opt' = TRUE
                     /\ state_opt' = StInitial
                     /\ ret' = Ret("open", OkRes, "ok")
                     /\ UNCHANGED << req_type_opt, own_sample_buffer, crash >>
                [] outcome = "resolve_fail" ->
                     \* to_socket_addrs().unwrap().next().unwrap()
                     /\ crash' = "unwrap_resolve"
                     /\ UNCHANGED << session, ret >>
                [] OTHER ->
                     /\ ret' = Ret("open", IoErr("Other"), "conn")
                     /\ UNCHANGED << session, crash >>
    /\ UNCHANGED << frames, stream, transport, memory, pc, ctx, last_io, ub, settings, pure >>

\* LocalTunnel::start up to and including write_all
start(req_type) ==
    /\ crash = "none" /\ pc = "idle"
    /\ IF ~ensure_connected
       THEN /\ ret' = Ret("start", TunnelErr("stream not opened"), "seq")
            /\ UNCHANGED << tx_pending, pc, ctx, last_io, crash >>
       ELSE IF ~conn_opt
       THEN /\ crash' = "unwrap_conn"
            /\ UNCHANGED << tx_pending, pc, ctx, last_io, ret >>
       ELSE IF ~start_allowed(state_opt)
       THEN /\ ret' = Ret("start", TunnelErr("stream already started"), "seq")
            /\ UNCHANGED << tx_pending, pc, ctx, last_io, crash >>
       ELSE LET packet == CameraCmdPacket(req_type, settings.username, settings.password, TRUE)
            IN IF ~packet.ok
               THEN /\ crash' = "slice_index"
                    /\ UNCHANGED << tx_pending, pc, ctx, last_io, ret >>
               ELSE /\ CanWrite
                    /\ tx_pending' = Append(tx_pending, packet.bytes)
                    /\ pc' = "drive"
                    /\ ctx' = [op |-> "start", can_block |-> TRUE, req |-> req_type]
                    /\ last_io' = "looping"
                    /\ UNCHANGED << ret, crash >>
    /\ UNCHANGED << frames, stream, plain, pos, link, session, memory, ub, settings, pure >>

\* LocalTunnel::close up to and including write_all
close ==
    /\ crash = "none" /\ pc = "idle"
    /\ IF ~ensure_connected
       THEN /\ ret' = Ret("close", TunnelErr("stream not opened"), "seq")
            /\ UNCHANGED << tx_pending, pc, ctx, last_io, crash >>
       ELSE IF ~conn_opt
       THEN /\ crash' = "unwrap_conn"
            /\ UNCHANGED << tx_pending, pc, ctx, last_io, ret >>
       ELSE IF close_rejected(state_opt)
       THEN /\ ret' = Ret("close", TunnelErr("stream not started"), "seq")
            /\ UNCHANGED << tx_pending, pc, ctx, last_io, crash >>
       ELSE IF ~req_type_opt.some
       THEN /\ crash' = "unwrap_req_type"
            /\ UNCHANGED << tx_pending, pc, ctx, last_io, ret >>
       ELSE LET packet == CameraCmdPacket(req_type_opt.val, settings.username,
                                          settings.password, FALSE)
            IN IF ~packet.ok
               THEN /\ crash' = "slice_index"
                    /\ UNCHANGED << tx_pending, pc, ctx, last_io, ret >>
               ELSE /\ CanWrite
                    /\ tx_pending' = Append(tx_pending, packet.bytes)
                    /\ pc' = "drive"
                    /\ ctx' = [op |-> "close", can_block |-> TRUE, req |-> req_type_opt.val]
                    /\ last_io' = "looping"
                    /\ UNCHANGED << ret, crash >>
    /\ UNCHANGED << frames, stream, plain, pos, link, session, memory, ub, settings, pure >>

\* the release step and the state dispatch of LocalTunnel::read_sample
read_sample ==
    /\ crash = "none" /\ pc = "idle"
    /\ IF ~ensure_connected
       THEN /\ ret' = Ret("read_sample", TunnelErr("stream not opened"), "seq")
            /\ UNCHANGED << state_opt, own_sample_buffer, memory, pc, ctx, last_io, crash, ub >>
       ELSE
         LET s0 == IF ~own_sample_buffer THEN ZeroSample ELSE sample
             d == destroy_buffer(s0, heap)
         IN /\ own_sample_buffer' = TRUE
            /\ ub' = ub \cup d.ub
            /\ \E abort \in (IF d.ub = {} THEN {FALSE} ELSE BOOLEAN) :
               IF abort
               THEN \* freeing what is no live allocation may end the process
                    /\ crash' = "ub_abort"
                    /\ sample' = d.sample
                    /\ heap' = d.heap
                    /\ UNCHANGED << state_opt, delivered, pc, ctx, last_io, ret >>
               ELSE IF ~conn_opt
               THEN /\ crash' = "unwrap_conn"
                    /\ sample' = d.sample
                    /\ heap' = d.heap
                    /\ UNCHANGED << state_opt, delivered, pc, ctx, last_io, ret >>
               ELSE IF not_started(state_opt)
               THEN /\ ret' = Ret("read_sample", TunnelErr("stream not started"), "seq")
                    /\ sample' = d.sample
                    /\ heap' = d.heap
                    /\ UNCHANGED << state_opt, delivered, pc, ctx, last_io, crash >>
               ELSE IF state_opt.tag = "ProcessStream"
               THEN /\ pc' = "drive"
                    /\ ctx' = [op |-> "read_header", can_block |-> FALSE, req |-> 0]
                    /\ last_io' = "looping"
                    /\ sample' = d.sample
                    /\ heap' = d.heap
                    /\ UNCHANGED << state_opt, delivered, ret, crash >>
               ELSE IF state_opt.remaining_bytes = 0
               THEN LET b == set_buffer(d.sample, state_opt.header,
                                        VecClone([bytes |-> state_opt.data, cap |-> state_opt.cap]),
                                        d.heap)
                    IN IF ~b.ok
                       THEN /\ crash' = "assert_capacity"
                            /\ sample' = d.sample
                            /\ heap' = d.heap
                            /\ UNCHANGED << state_opt, delivered, pc, ctx, last_io, ret >>
                       ELSE /\ sample' = b.sample
                            /\ heap' = b.heap
                            /\ delivered' = delivered + 1
                            /\ state_opt' = StProcessStream
                            /\ ret' = Ret("read_sample", OkRes, "ok")
                            /\ UNCHANGED << pc, ctx, last_io, crash >>
               ELSE /\ pc' = "drive"
                    /\ ctx' = [op |-> "read_body", can_block |-> FALSE, req |-> 0]
                    /\ last_io' = "looping"
                    /\ sample' = d.sample
                    /\ heap' = d.heap
                    /\ UNCHANGED << state_opt, delivered, ret, crash >>
    /\ UNCHANGED << frames, stream, transport, conn_opt, req_type_opt, settings, pure >>

(* ------------------------ LocalTunnelConnection ------------------------ *)
\* rustls wants_write / wants_read as complete_io consults them
wants_write == tx_pending # << >>
wants_read == plain = 0 /\ link # "closed"

\* the match arm of process_events for a would-block result of complete_io:
\* TRUE when the loop continues
RetryWouldBlock(can_block) == TRUE

\* the match arm of process_events for an interrupted poll: TRUE when the
\* loop continues
RetryInterrupted(can_block) == can_block

\* result of tls_conn.complete_io: nothing to do, a flush of the pending
\* writes, or a read from the socket that yields got new plaintext bytes
\* followed by tail: "none", "part" (bytes of a record that is not complete
\* yet) or "close" (the peer's close_notify)
complete_io(io_fails, writable, got, tail) ==
    IF ~wants_write /\ ~wants_read THEN "ok"
    ELSE IF io_fails THEN "err"
    ELSE IF wants_write THEN (IF writable THEN "ok" ELSE "wouldblock")
    ELSE IF got > 0 \/ tail # "none" THEN "ok"
    ELSE "wouldblock"

\* the header callback, conn.read_exact(&mut raw_header), on avail unread
\* plaintext bytes: n is the number of bytes it takes out of the plaintext
read_exact_header(avail, closed) ==
    IF avail >= HeaderLen
    THEN [out |-> "ok", n |-> HeaderLen]
    ELSE [out |-> IF closed THEN "eof" ELSE "wouldblock", n |-> avail]

\* the body callback's loop: read up to remaining_bytes in chunks; at is the
\* number of stream bytes read so far, avail the unread plaintext
RECURSIVE body_loop(_, _, _, _, _, _)
body_loop(data, cap, remaining, avail, at, closed) ==
    IF remaining = 0
    THEN [out |-> "done", data |-> data, cap |-> cap, remaining |-> remaining,
          avail |-> avail, at |-> at]
    ELSE LET bufffer_max_len == Min(remaining, ChunkSize)
         IN IF avail = 0
            THEN [out |-> IF closed THEN "eof" ELSE "wouldblock",
                  data |-> data, cap |-> cap, remaining |-> remaining,
                  avail |-> avail, at |-> at]
            ELSE LET n == Min(avail, bufffer_max_len)
                     chunk == SubSeq(stream, at + 1, at + n)
                 IN body_loop(data \o chunk,
                              VecReserve(cap, Len(data), n),
                              remaining - n,
                              avail - n,
                              at + n,
                              closed)

ReceivingSampleFor_complete(header) ==
    LET cap == VecReserve(0, 0, header.frame_len)
    IN StReceivingSample(header, << >>, cap, 0)

\* the state entered when a header completes: data.reserve(frame_len), then
\* ReceivingSample { header, remaining_bytes: data.capacity(), data }
ReceivingSampleFor(header) ==
    LET cap == VecReserve(0, 0, header.frame_len)
    IN StReceivingSample(header, << >>, cap, cap)

CallName(op) == IF op \in {"read_header", "read_body"} THEN "read_sample" ELSE op

\* process_events returns an error to the call that drives it
DriveFails(err, cls) ==
    /\ pc' = "idle"
    /\ ctx' = NoCtx
    /\ last_io' = "returned"
    /\ ret' = Ret(CallName(ctx.op), err, cls)
    /\ UNCHANGED << transport, session, memory, crash >>

\* process_events goes round its loop again
DriveContinues(what) ==
    /\ last_io' = IF what = "wouldblock" THEN "wouldblock" ELSE "looping"
    /\ UNCHANGED << transport, session, memory, pc, ctx, ret, crash >>

\* complete_io succeeded: its effect on the transport, then read_cb and the
\* rest of the call that drives the transport
DriveCompletes(got, closes) ==
    LET flushed == wants_write
        pulled == ~wants_write /\ wants_read
        avail == IF pulled THEN got ELSE plain
        closed == link = "closed" \/ (pulled /\ closes)
    IN /\ tx_pending' = IF flushed THEN << >> ELSE tx_pending
       /\ link' = IF closed THEN "closed" ELSE link
       /\ pc' = "idle"
       /\ ctx' = NoCtx
       /\ last_io' = "returned"
       /\ UNCHANGED << conn_opt, own_sample_buffer, memory >>
       /\ CASE ctx.op = "start" ->
                 /\ state_opt' = StProcessStream
                 /\ req_type_opt' = SomeReq(ctx.req)
                 /\ ret' = Ret("start", OkRes, "ok")
                 /\ plain' = avail
                 /\ UNCHANGED << pos, crash >>
            [] ctx.op = "close" ->
                 /\ state_opt' = StInitial
                 /\ ret' = Ret("close", OkRes, "ok")
                 /\ plain' = avail
                 /\ UNCHANGED << pos, req_type_opt, crash >>
            [] ctx.op = "read_header" ->
                 LET r == read_exact_header(avail, closed)
                 IN /\ pos' = pos + r.n
                    /\ plain' = avail - r.n
                    /\ state_opt' = IF r.out = "ok"
                                    THEN ReceivingSampleFor(
                                           CameraCmdFrameHeader(SubSeq(stream, pos + 1, pos + HeaderLen)))
                                    ELSE state_opt
                    /\ ret' = CASE r.out = "ok" ->
                                     Ret("read_sample", IoErr("Interrupted"), "transient")
                                [] r.out = "wouldblock" ->
                                     Ret("read_sample", IoErr("WouldBlock"), "transient")
                                [] OTHER ->
                                     Ret("read_sample", IoErr("UnexpectedEof"), "fatal")
                    /\ UNCHANGED << req_type_opt, crash >>
            [] OTHER ->
                 LET b == body_loop(state_opt.data, state_opt.cap,
                                    state_opt.remaining_bytes, avail, pos, closed)
                 IN /\ pos' = b.at
                    /\ plain' = b.avail
                    /\ state_opt' = StReceivingSample(state_opt.header, b.data, b.cap, b.remaining)
                    /\ IF b.out = "eof"
                       THEN \* assert!(*remaining_bytes == 0)
                            /\ crash' = "assert_remaining"
                            /\ UNCHANGED ret
                       ELSE /\ ret' = Ret("read_sample",
                                          IoErr(IF b.out = "done" THEN "Interrupted" ELSE "WouldBlock"),
                                          "transient")
                            /\ UNCHANGED crash
                    /\ UNCHANGED req_type_opt

\* the match on the result of complete_io in process_events
AfterCompleteIo(io, got, closes) ==
    IF io = "wouldblock"
    THEN (IF RetryWouldBlock(ctx.can_block)
          THEN DriveContinues("wouldblock")
          ELSE DriveFails(IoErr("WouldBlock"), "transient"))
    ELSE IF io = "err" THEN DriveFails(IoErr("Other"), "fatal")
    ELSE DriveCompletes(got, closes)

\* one iteration of the loop of LocalTunnelConnection::process_events,
\* followed, when complete_io succeeds, by read_cb and the return of the call.
\* The environment decides whether reregister, poll or the socket I/O fail,
\* whether the socket takes writes, how many further bytes of the stream the
\* TLS layer gets and what comes after them.
process_events ==
    /\ crash = "none" /\ pc = "drive"
    /\ \E step \in {"reregister_err", "poll_intr", "poll_err", "complete_io"} :
         CASE step = "reregister_err" -> DriveFails(IoErr("Other"), "fatal")
           [] step = "poll_intr" ->
                IF RetryInterrupted(ctx.can_block)
                THEN DriveContinues("intr")
                ELSE DriveFails(IoErr("Interrupted"), "transient")
           [] step = "poll_err" -> DriveFails(IoErr("Other"), "fatal")
           [] OTHER ->
                IF ~wants_write /\ ~wants_read
                THEN AfterCompleteIo(complete_io(FALSE, FALSE, 0, "none"), 0, FALSE)
                ELSE IF wants_write
                THEN \E io_fails \in BOOLEAN, writable \in BOOLEAN :
                        AfterCompleteIo(complete_io(io_fails, writable, 0, "none"), 0, FALSE)
                ELSE \/ AfterCompleteIo(complete_io(TRUE, FALSE, 0, "none"), 0, FALSE)
                     \/ \E got \in 0..(Len(stream) - pos - plain),
                           tail \in {"none", "part", "close"} :
                          AfterCompleteIo(complete_io(FALSE, FALSE, got, tail), got,
                                          tail = "close")
    /\ UNCHANGED << frames, stream, ub, settings, pure >>

Next ==
    \/ open
    \/ \E req_type \in ReqTypes : start(req_type)
    \/ close
    \/ read_sample
    \/ process_events

Spec == Init /\ [][Next]_vars

(* ------------------------- descriptor parsing -------------------------- *)
\* strings are sequences of characters
SCHEMA_START == << "b", "a", "m", "b", "u", ":", "/", "/", "/", "l", "o", "c", "a", "l", "/" >>

\* largest value of a u16 (the port)
U16Max == 65535

None == [some |-> FALSE, val |-> << >>]
Some(v) == [some |-> TRUE, val |-> v]

\* str::starts_with
starts_with(s, prefix) ==
    Len(s) >= Len(prefix) /\ SubSeq(s, 1, Len(prefix)) = prefix

\* str::find for a pattern of two characters: the position of the first
\* match counted from 1, or 0 when there is none
find(s, a, b) ==
    LET hits == {i \in 1..(Len(s) - 1) : s[i] = a /\ s[i + 1] = b}
    IN IF hits = {} THEN 0 ELSE CHOOSE i \in hits : \A j \in hits : i <= j

\* str::split on one character: the pieces between the separators, at least one
RECURSIVE split(_, _)
split(s, sep) ==
    LET hits == {i \in 1..Len(s) : s[i] = sep}
    IN IF hits = {} THEN << s >>
       ELSE LET i == CHOOSE h \in hits : \A j \in hits : h <= j
            IN << SubSeq(s, 1, i - 1) >> \o split(SubSeq(s, i + 1, Len(s)), sep)

DecimalDigits == << "0", "1", "2", "3", "4", "5", "6", "7", "8", "9" >>
IsDigit(c) == \E d \in 1..Len(DecimalDigits) : DecimalDigits[d] = c
DigitValue(c) == (CHOOSE d \in 1..Len(DecimalDigits) : DecimalDigits[d] = c) - 1

\* the digits of str::parse::<u16>, most significant first, onto acc
RECURSIVE parse_digits(_, _, _)
parse_digits(s, k, acc) ==
    IF k > Len(s) THEN [ok |-> TRUE, val |-> acc]
    ELSE IF ~IsDigit(s[k]) THEN [ok |-> FALSE, val |-> 0]
    ELSE LET next == 10 * acc + DigitValue(s[k])
         IN IF next > U16Max THEN [ok |-> FALSE, val |-> 0]
            ELSE parse_digits(s, k + 1, next)

\* str::parse::<u16>: an optional "+" and at least one decimal digit
parse_u16(s) ==
    LET digits == IF Len(s) > 0 /\ s[1] = "+" THEN SubSeq(s, 2, Len(s)) ELSE s
    IN IF Len(digits) = 0 THEN [ok |-> FALSE, val |-> 0]
       ELSE parse_digits(digits, 1, 0)

\* the keys from_url recognises
KeyUser == << "u", "s", "e", "r" >>
KeyPasswd == << "p", "a", "s", "s", "w", "d" >>
KeyPort == << "p", "o", "r", "t" >>
KeyDevice == << "d", "e", "v", "i", "c", "e" >>
KeyNetVer == << "n", "e", "t", "_", "v", "e", "r" >>
KeyDevVer == << "d", "e", "v", "_", "v", "e", "r" >>
KeyCliId == << "c", "l", "i", "_", "i", "d" >>
KeyCliVer == << "c", "l", "i", "_", "v", "e", "r" >>

\* the locals of from_url before its loop
NoFields ==
    [username |-> None, password |-> None, port |-> None, serial |-> None,
     net_ver |-> None, dev_ver |-> None, cli_id |-> None, cli_ver |-> None]

Parsed(fields) == [kind |-> "ok", what |-> "settings", fields |-> fields]
ParseErr(what) == [kind |-> "err", what |-> what, fields |-> NoFields]
Panic(what) == [kind |-> "panic", what |-> what, fields |-> NoFields]

\* the loop of from_url over the pieces of the query, from piece k on
RECURSIVE parse_query(_, _, _)
parse_query(pieces, k, f) ==
    IF k > Len(pieces) THEN Parsed(f)
    ELSE LET parts == split(pieces[k], "=")
             key == parts[1]
         IN IF Len(parts) < 2 THEN Panic("val unwrap")
            ELSE LET val == parts[2]
                 IN CASE key = KeyUser -> parse_query(pieces, k + 1, [f EXCEPT !.username = Some(val)])
                      [] key = KeyPasswd -> parse_query(pieces, k + 1, [f EXCEPT !.password = Some(val)])
                      [] key = KeyDevice -> parse_query(pieces, k + 1, [f EXCEPT !.serial = Some(val)])
                      [] key = KeyNetVer -> parse_query(pieces, k + 1, [f EXCEPT !.net_ver = Some(val)])
                      [] key = KeyDevVer -> parse_query(pieces, k + 1, [f EXCEPT !.dev_ver = Some(val)])
                      [] key = KeyCliId -> parse_query(pieces, k + 1, [f EXCEPT !.cli_id = Some(val)])
                      [] key = KeyCliVer -> parse_query(pieces, k + 1, [f EXCEPT !.cli_ver = Some(val)])
                      [] key = KeyPort ->
                           LET p == parse_u16(val)
                           IN IF p.ok
                              THEN parse_query(pieces, k + 1, [f EXCEPT !.port = Some(p.val)])
                              ELSE ParseErr("ParseIntError")
                      [] OTHER -> parse_query(pieces, k + 1, f)

\* LocalSettings::from_url: settings (with the hostname), an error value, or
\* a panic
from_url(url) ==
    IF ~starts_with(url, SCHEMA_START) THEN ParseErr("Invalid schema")
    ELSE LET part == SubSeq(url, Len(SCHEMA_START) + 1, Len(url))
             ip_end == find(part, ".", "?")
         IN IF ip_end = 0 THEN ParseErr("Invalid url")
            ELSE LET hostname == SubSeq(part, 1, ip_end - 1)
                     raw_query == SubSeq(part, ip_end + 2, Len(part))
                     q == parse_query(split(raw_query, "&"), 1, NoFields)
                 IN IF q.kind # "ok" THEN q
                    ELSE IF ~q.fields.username.some THEN Panic("username unwrap")
                    ELSE IF ~q.fields.password.some THEN Panic("password unwrap")
                    ELSE IF ~q.fields.port.some THEN Panic("port unwrap")
                    ELSE [kind |-> "ok", what |-> "settings",
                          fields |-> [hostname |-> hostname,
                                      port |-> q.fields.port.val,
                                      username |-> q.fields.username.val,
                                      password |-> q.fields.password.val,
                                      serial |-> q.fields.serial,
                                      net_ver |-> q.fields.net_ver,
                                      dev_ver |-> q.fields.dev_ver,
                                      cli_id |-> q.fields.cli_id,
                                      cli_ver |-> q.fields.cli_ver]]

(* ------------------- the pure functions on their own ------------------- *)
\* number of key=value pieces in a descriptor
MaxPairs == 4

\* request types handed to CameraCmdPacket::new: any i32, negative included
PacketReqTypes == ReqTypes \cup {-1}

\* a credential that fills a field exactly
FullCred == [i \in 1..CredLen |-> 98]
Credentials == { << >>, Ego, Elysia, FullCred, LongCred }

\* a piece of a query: key, "=" and value, or the key alone; num is the number
\* a port value denotes
Piece(key, val, num) == [key |-> key, val |-> val, eq |-> TRUE, num |-> num]
Bare(key) == [key |-> key, val |-> << >>, eq |-> FALSE, num |-> 0]
QueryPieces ==
    { Piece(KeyUser, << "m", "e" >>, 0),
      Piece(KeyPasswd, << "p", "w" >>, 0),
      Piece(KeyPasswd, << "a", "=", "b" >>, 0),
      Piece(KeyPort, << "8", "0" >>, 80),
      Piece(KeyPort, << "6", "5", "5", "3", "6" >>, U16Max + 1),
      Piece(KeyDevice, << "d", "1" >>, 0),
      Piece(<< "x" >>, << "1" >>, 0),
      Bare(KeyUser) }
Hosts == { << "h" >>, << "1", ".", "2" >> }
Shapes == {"ok", "bad_schema", "no_delimiter"}

Render(piece) == IF piece.eq THEN piece.key \o << "=" >> \o piece.val ELSE piece.key

RECURSIVE Join(_, _)
Join(pieces, k) ==
    IF k > Len(pieces) THEN << >>
    ELSE Render(pieces[k]) \o (IF k < Len(pieces) THEN << "&" >> ELSE << >>) \o Join(pieces, k + 1)

\* the descriptor text: prefix, hostname, ".?" and the query
Descriptor(shape, host, pieces) ==
    (IF shape = "bad_schema" THEN SubSeq(SCHEMA_START, 1, Len(SCHEMA_START) - 1)
     ELSE SCHEMA_START)
        \o host \o (IF shape = "no_delimiter" THEN << "?" >> ELSE << ".", "?" >>)
        \o Join(pieces, 1)

tunnel == << frames, stream, transport, session, memory, pc, ctx, last_io, ret, crash, ub,
             settings >>

\* a call of CameraCmdPacket::new(...).as_bytes()
CameraCmdPacket_new ==
    /\ arg = NoArg
    /\ \E req_type \in PacketReqTypes, user \in Credentials, pass \in Credentials,
          is_start \in BOOLEAN :
         LET packet == CameraCmdPacket(req_type, user, pass, is_start)
         IN /\ arg' = [fn |-> "CameraCmdPacket::new", req_type |-> req_type,
                       user |-> user, pass |-> pass, is_start |-> is_start]
            /\ out' = IF packet.ok THEN [kind |-> "packet", bytes |-> packet.bytes]
                      ELSE [kind |-> "panic", bytes |-> << >>]
    /\ UNCHANGED tunnel

\* a call of LocalSettings::from_url
LocalSettings_from_url ==
    /\ arg = NoArg
    /\ \E shape \in Shapes, host \in Hosts,
          pieces \in UNION {[1..n -> QueryPieces] : n \in 0..MaxPairs} :
         /\ arg' = [fn |-> "from_url", url |-> Descriptor(shape, host, pieces),
                    shape |-> shape, host |-> host, pieces |-> pieces]
         /\ out' = from_url(Descriptor(shape, host, pieces))
    /\ UNCHANGED tunnel

\* lengths of a delivered buffer: around 0, around I32Max and the largest
\* a header can declare
BufferLens ==
    { Usize(0), Usize(1), Usize(MinNonZeroCap), Usize(I32Max),
      [hi |-> 32768, lo |-> 0], [hi |-> 32768, lo |-> 1], [hi |-> 65535, lo |-> 65535] }

\* BambuSample::set_buffer for a buffer of len bytes, then the release step
\* of the next read_sample; the heap entry has the capacity that
\* destroy_buffer hands to Vec::from_raw_parts
BambuSample_set_buffer ==
    /\ arg = NoArg
    /\ \E len \in BufferLens :
         LET size == AsI32(len)
             d == destroy_buffer([ZeroSample EXCEPT !.size = size, !.buffer = 1],
                                 << LiveBuf(<< >>, size) >>)
         IN /\ arg' = [fn |-> "set_buffer", len |-> len]
            /\ out' = [kind |-> "sample", size |-> size,
                       freed |-> d.heap[1].status = "freed"]
    /\ UNCHANGED tunnel

PureInit ==
    /\ Init
    /\ frames = [k \in 1..NFrames |-> 0]
    /\ sample = ZeroSample
    /\ settings = [username |-> Elysia, password |-> Ego]

PureNext ==
    \/ CameraCmdPacket_new
    \/ LocalSettings_from_url
    \/ BambuSample_set_buffer

PureSpec == PureInit /\ [][PureNext]_vars

(* ------------------------------- claims -------------------------------- *)
ReadOps == {"read_header", "read_body"}
Reading == pc = "drive" /\ ctx.op \in ReadOps
ReadReturned == ret.op = "read_sample"
LiveBufs == {i \in 1..Len(heap) : heap[i].status = "live"}
FirstHeader == CameraCmdFrameHeader(SubSeq(stream, 1, HeaderLen))

\* C1: a header declaring L followed by exactly L body bytes yields one
\* successful read_sample with size L: once the first header and L body bytes
\* have been read the frame is complete, and the first sample delivered from
\* them has size L and an allocation of L bytes.
C1_OneSampleOfDeclaredLength ==
    /\ (state_opt.tag = "ReceivingSample" /\ state_opt.header = FirstHeader
            /\ Len(state_opt.data) = frames[1])
        => state_opt.remaining_bytes = 0
    /\ (ReadReturned /\ ret.cls = "ok" /\ delivered = 1 /\ sample.itrack = 1
            /\ pos = HeaderLen + frames[1])
        => /\ sample.size = frames[1]
           /\ \A i \in LiveBufs : heap[i].cap = frames[1]

\* C2: a header tick that finds fewer than 16 bytes leaves the state
\* ProcessStream and takes no byte out of the stream.
C2_ShortHeaderTickConsumesNothing ==
    [][(Reading /\ ctx.op = "read_header" /\ pc' = "idle"
            /\ state_opt'.tag = "ProcessStream")
        => pos' = pos]_vars

C5_WouldBlockEndsTick ==
    (pc = "drive" /\ last_io = "wouldblock") => ctx.can_block

\* C6: on a session that was never opened start and close fail with the
\* sequencing error "stream not opened", write nothing, drive nothing and
\* change nothing.
C6_UnopenedStartCloseFail ==
    ~conn_opt =>
        /\ tx_pending = << >>
        /\ pc = "idle" /\ last_io = "none"
        /\ state_opt = StNone /\ req_type_opt = NoReq
        /\ crash # "unwrap_conn"
        /\ ret.op \in {"start", "close"}
            => ret.cls = "seq" /\ ret.err = TunnelErr("stream not opened")

\* close was called on a session that is not open, and returned
C6_Witness == ~conn_opt /\ ret.op = "close" /\ ret.cls = "seq"

\* C7: a read_sample call made while the stream is not started (state unset
\* or Initial) returns the sequencing error, never success or "try again",
\* and leaves the state as it was.
C7_ReadBeforeStartFails ==
    [][(pc = "idle" /\ pc' = "idle" /\ crash' = "none" /\ ret'.op = "read_sample"
            /\ state_opt.tag \in {"None", "Initial"})
        => /\ ret'.cls = "seq"
           /\ ret'.err.ty = "LocalTunnelError"
           /\ ret'.code \notin {0, BAMBU_WOULD_BLOCK_ERROR}
           /\ state_opt' = state_opt]_vars

\* read_sample failed for want of a start after a start/close cycle
C7_Witness ==
    /\ ReadReturned /\ ret.err = TunnelErr("stream not started")
    /\ state_opt.tag = "Initial" /\ req_type_opt.some

\* C8: Bambu_ReadSample returns 0 exactly for success, the would-block code
\* exactly for the transient condition, and another non-zero code for every
\* sequencing and fatal error.
C8_ReturnCodesApart ==
    ReadReturned =>
        /\ ret.code = 0 <=> ret.cls = "ok"
        /\ ret.code = BAMBU_WOULD_BLOCK_ERROR <=> ret.cls = "transient"
        /\ ret.cls \in {"seq", "fatal"} => ret.code = -1

\* a header tick was cut short by an interrupted poll
C8_Witness ==
    /\ ReadReturned /\ ret.err = IoErr("Interrupted")
    /\ state_opt.tag = "ProcessStream" /\ pos = 0 /\ plain = 0

\* C9: after a successful close the session holds no transport and is
\* unopened again.
C9_CloseReleasesTransport ==
    (ret.op = "close" /\ ret.cls = "ok" /\ pc = "idle")
        => ~conn_opt /\ state_opt.tag = "None"

\* C10 as claimed: from ReceivingSample the only next state is ProcessStream.
C10_ReceivingOnlyToProcessStream ==
    [][state_opt.tag = "ReceivingSample"
        => state_opt'.tag \in {"ReceivingSample", "ProcessStream"}]_vars

\* C10 amended: the state changes only by open (unset to Initial), a
\* successful start (Initial to ProcessStream), a completed header
\* (ProcessStream to ReceivingSample), a delivery (ReceivingSample to
\* ProcessStream) and a successful close (ProcessStream or ReceivingSample
\* to Initial).
C10_StateOrder ==
    [][\/ state_opt'.tag = state_opt.tag
       \/ state_opt.tag = "None" /\ state_opt'.tag = "Initial" /\ ret'.op = "open"
       \/ state_opt.tag = "Initial" /\ state_opt'.tag = "ProcessStream"
            /\ ret' = Ret("start", OkRes, "ok")
       \/ state_opt.tag = "ProcessStream" /\ state_opt'.tag = "ReceivingSample"
            /\ ret'.op = "read_sample" /\ pos' = pos + HeaderLen
       \/ state_opt.tag = "ReceivingSample" /\ state_opt'.tag = "ProcessStream"
            /\ state_opt.remaining_bytes = 0 /\ delivered' = delivered + 1
       \/ state_opt.tag \in {"ProcessStream", "ReceivingSample"}
            /\ state_opt'.tag = "Initial" /\ ret' = Ret("close", OkRes, "ok")]_vars

\* close took effect while a frame was partly received
C10_Witness ==
    /\ ret = Ret("close", OkRes, "ok") /\ state_opt.tag = "Initial"
    /\ frames[1] = MinNonZeroCap /\ pos = HeaderLen + 1 /\ delivered = 0

\* the header tick, the body tick and the delivery of read_sample, as steps
HeaderCompletes == state_opt.tag = "ProcessStream" /\ state_opt'.tag = "ReceivingSample"
BodyTick == pc = "drive" /\ ctx.op = "read_body" /\ pc' = "idle"
Delivers == delivered' # delivered

\* C11 as claimed: whatever the declared length, the sample is delivered
\* neither by the invocation that completes the header nor by the one after
\* it, which finds the state the header tick left.
C11_AtLeastThreeInvocations ==
    [][/\ HeaderCompletes => ~Delivers
       /\ Delivers => state_opt # ReceivingSampleFor(state_opt.header)]_vars

\* C11 amended: the invocation that completes a header and every body tick
\* deliver nothing and report "try again"; a delivery is made from
\* ReceivingSample with remaining = 0, and for a declared length above 0 not
\* from the state the header tick left, so that it takes a header tick, at
\* least one body tick and the completion; an empty frame is delivered by the
\* invocation after the header tick.
C11_ThreeUnlessEmpty ==
    [][/\ HeaderCompletes => ~Delivers /\ ret'.cls = "transient"
       /\ BodyTick => ~Delivers /\ ret'.cls # "ok"
       /\ Delivers =>
            /\ state_opt.tag = "ReceivingSample" /\ state_opt.remaining_bytes = 0
            /\ ret' = Ret("read_sample", OkRes, "ok")
            /\ state_opt.header.frame_len > 0
                 => state_opt # ReceivingSampleFor(state_opt.header)]_vars

\* a frame with a body was delivered after its header and its body were read
C11_Witness ==
    /\ ReadReturned /\ ret.cls = "ok" /\ delivered = 1
    /\ frames[1] = MinNonZeroCap /\ pos = HeaderLen + MinNonZeroCap
    /\ sample.size = MinNonZeroCap


PacketBuilt == arg.fn = "CameraCmdPacket::new"
UserField == SubSeq(out.bytes, 17, 16 + CredLen)
PassField == SubSeq(out.bytes, 17 + CredLen, 16 + 2 * CredLen)

\* the command words and the credential fields of the packet just built
PacketFieldsRight ==
    /\ I32At(out.bytes, 1) = (IF arg.is_start THEN 64 ELSE 0)
    /\ I32At(out.bytes, 5) = arg.req_type
    /\ I32At(out.bytes, 9) = 0 /\ I32At(out.bytes, 13) = 0
    /\ \A i \in 1..CredLen :
         /\ UserField[i] = (IF i <= Len(arg.user) THEN arg.user[i] ELSE 0)
         /\ PassField[i] = (IF i <= Len(arg.pass) THEN arg.pass[i] ELSE 0)

\* C12 as claimed: for credentials of at most 32 bytes the packet has 72
\* bytes; word 0 is 0x40 when is_start and 0 otherwise, word 1 is the request
\* type, words 2 and 3 are zero, and each credential field holds the
\* credential followed by zero bytes.
C12_PacketOf72Bytes ==
    (PacketBuilt /\ Len(arg.user) <= CredLen /\ Len(arg.pass) <= CredLen) =>
        /\ out.kind = "packet"
        /\ Len(out.bytes) = 72
        /\ PacketFieldsRight

\* C12 amended: the packet has 80 bytes, four command words of 4 bytes and
\* two fields of 32, with the words and fields as claimed.
C12_PacketLayout ==
    (PacketBuilt /\ Len(arg.user) <= CredLen /\ Len(arg.pass) <= CredLen) =>
        /\ out.kind = "packet"
        /\ Len(out.bytes) = PacketLen
        /\ Len(out.bytes) = 80
        /\ PacketFieldsRight

\* the start packet of the spec's example: 0x3000, "elysia", "ego"
C12_Witness ==
    /\ PacketBuilt /\ arg.is_start /\ arg.req_type = 12288
    /\ arg.user = Elysia /\ arg.pass = Ego
    /\ out.kind = "packet"
    /\ SubSeq(out.bytes, 17, 22) = Elysia /\ out.bytes[23] = 0

\* C13: a credential longer than 32 bytes is truncated: the packet is built
\* and its field holds the first 32 bytes of the credential.
C13_LongCredentialTruncated ==
    (PacketBuilt /\ (Len(arg.user) > CredLen \/ Len(arg.pass) > CredLen)) =>
        /\ out.kind = "packet"
        /\ Len(arg.user) > CredLen => UserField = SubSeq(arg.user, 1, CredLen)
        /\ Len(arg.pass) > CredLen => PassField = SubSeq(arg.pass, 1, CredLen)

UrlParsed == arg.fn = "from_url"
HasKey(key) == \E i \in 1..Len(arg.pieces) : arg.pieces[i].key = key
\* the last piece with the key
LastOf(key) ==
    arg.pieces[CHOOSE i \in 1..Len(arg.pieces) :
                 /\ arg.pieces[i].key = key
                 /\ \A j \in (i + 1)..Len(arg.pieces) : arg.pieces[j].key # key]
Mandatory == {KeyUser, KeyPasswd, KeyPort}
WellFormed ==
    /\ arg.shape = "ok"
    /\ \A i \in 1..Len(arg.pieces) :
         /\ arg.pieces[i].eq
         /\ arg.pieces[i].key = KeyPort => arg.pieces[i].num \in 0..U16Max
    /\ \A key \in Mandatory : HasKey(key)

\* C14: a well-formed descriptor that has user, passwd and port parses, and
\* every recognised field is returned exactly: the hostname, the port as a
\* number, and every other value as the text between its "=" and the next
\* "&"; unknown keys are ignored.
C14_WellFormedParses ==
    (UrlParsed /\ WellFormed) =>
        /\ out.kind = "ok"
        /\ out.fields.hostname = arg.host
        /\ out.fields.port = LastOf(KeyPort).num
        /\ out.fields.username = LastOf(KeyUser).val
        /\ out.fields.password = LastOf(KeyPasswd).val
        /\ out.fields.serial.some = HasKey(KeyDevice)
        /\ HasKey(KeyDevice) => out.fields.serial.val = LastOf(KeyDevice).val

\* C15: a descriptor that lacks user, passwd or port yields a parse error
\* value, never a panic and never settings.
C15_MissingKeyIsParseError ==
    (UrlParsed /\ \E key \in Mandatory : ~HasKey(key)) => out.kind = "err"


\* C16: in every ReceivingSample state the bytes accumulated plus the bytes
\* remaining are the declared frame length.
C16_DataPlusRemainingIsFrameLen ==
    state_opt.tag = "ReceivingSample"
        => Len(state_opt.data) + state_opt.remaining_bytes = state_opt.header.frame_len

\* C17: a zero-byte read before the body is complete never aborts the
\* process: the assertion after the body loop does not fail.
C17_ZeroReadDoesNotAbort == crash # "assert_remaining"

\* a call passes its checks and writes its packet; its drive ends; it returns
\* without driving the transport
Called(op) == pc = "idle" /\ pc' = "drive" /\ ctx'.op = op
DriveEnds(op) == pc = "drive" /\ ctx.op = op /\ pc' = "idle"
ReturnsAtOnce(op) == pc = "idle" /\ pc' = "idle" /\ crash' = crash /\ ret'.op = op
LastWritten == tx_pending'[Len(tx_pending')]

\* C18: close passes its checks only on an open session in ProcessStream or
\* ReceivingSample, where a request type is stored; it writes one packet with
\* is_start = false and the stored request type, drives in blocking mode,
\* and sets the state to Initial when the drive succeeds and leaves it when
\* the drive fails; the stored request type is the one of the last
\* successful start; in Initial close returns the sequencing error.
C18_CloseSendsStoredRequest ==
    [][/\ crash' # "unwrap_req_type"
       /\ Called("close") =>
            /\ conn_opt /\ state_opt.tag \in {"ProcessStream", "ReceivingSample"}
            /\ req_type_opt.some
            /\ Len(tx_pending') = Len(tx_pending) + 1
            /\ I32At(LastWritten, 1) = 0
            /\ I32At(LastWritten, 5) = req_type_opt.val
            /\ ctx'.can_block
            /\ state_opt' = state_opt
       /\ DriveEnds("close") =>
            /\ ret'.op = "close"
            /\ state_opt' = (IF ret'.cls = "ok" THEN StInitial ELSE state_opt)
            /\ ret'.cls = "ok" => tx_pending' = << >>
            /\ req_type_opt' = req_type_opt
       /\ (ReturnsAtOnce("close") /\ state_opt.tag \in {"None", "Initial"}) =>
            /\ ret'.cls = "seq"
            /\ UNCHANGED << session, transport >>
       /\ req_type_opt' # req_type_opt =>
            /\ DriveEnds("start") /\ ret'.cls = "ok"
            /\ req_type_opt' = SomeReq(ctx.req)]_vars

\* a close succeeded after a sample was delivered on a video stream
C18_Witness ==
    /\ ret = Ret("close", OkRes, "ok") /\ state_opt = StInitial
    /\ req_type_opt = SomeReq(12288) /\ tx_pending = << >> /\ delivered = 1

\* C19: start passes its checks only on an open session in Initial; it
\* writes one packet with is_start = true, the request type and the
\* session's credentials, drives in blocking mode, and stores the request
\* type and sets ProcessStream when the drive succeeds; when the drive fails
\* state and stored request type stay; in ProcessStream and ReceivingSample
\* start returns the sequencing error.
C19_StartFromInitialOnly ==
    [][/\ Called("start") =>
            /\ conn_opt /\ state_opt.tag = "Initial"
            /\ Len(tx_pending') = Len(tx_pending) + 1
            /\ I32At(LastWritten, 1) = 64
            /\ I32At(LastWritten, 5) = ctx'.req
            /\ SubSeq(LastWritten, 17, 16 + CredLen) = ZeroPadded(settings.username)
            /\ SubSeq(LastWritten, 17 + CredLen, PacketLen) = ZeroPadded(settings.password)
            /\ ctx'.can_block
            /\ UNCHANGED session
       /\ DriveEnds("start") =>
            /\ ret'.op = "start"
            /\ IF ret'.cls = "ok"
               THEN /\ state_opt' = StProcessStream
                    /\ req_type_opt' = SomeReq(ctx.req)
                    /\ tx_pending' = << >>
               ELSE /\ state_opt' = state_opt /\ state_opt.tag = "Initial"
                    /\ req_type_opt' = req_type_opt
       /\ (ReturnsAtOnce("start") /\ state_opt.tag \in {"ProcessStream", "ReceivingSample"}) =>
            /\ ret' = Ret("start", TunnelErr("stream already started"), "seq")
            /\ UNCHANGED << session, transport >>]_vars

\* a start was rejected while a frame was partly received
C19_Witness ==
    /\ ret = Ret("start", TunnelErr("stream already started"), "seq")
    /\ state_opt.tag = "ReceivingSample" /\ Len(state_opt.data) > 0
    /\ req_type_opt = SomeReq(0)

\* C20: open never ends the process when resolution, connect or handshake
\* fails: it returns a connection error and leaves the session unopened.
C20_OpenFailureIsReturned ==
    /\ crash # "unwrap_resolve"
    /\ (ret.op = "open" /\ ret.cls = "conn") => ~conn_opt /\ state_opt = StNone


\* a call returns a sequencing error
SequencingError == pc = "idle" /\ pc' = "idle" /\ crash' = crash /\ ret'.cls = "seq"

\* C21: a call that returns a sequencing error leaves the state, the
\* transport and its presence, and the stored request type as they were, and
\* delivers nothing; open, start and close leave everything but their result
\* unchanged, read_sample on an open session only releases the sample
\* buffer and on an unopened one does not touch the sample. The calls the
\* claim lists return that error: open on an open session, start and close
\* on an unopened one.
C21_SequencingErrorChangesNothing ==
    [][/\ SequencingError =>
            /\ ret'.err.ty = "LocalTunnelError"
            /\ UNCHANGED << state_opt, conn_opt, req_type_opt, transport, settings, delivered >>
            /\ ret'.op # "read_sample" => UNCHANGED << own_sample_buffer, memory, ub >>
            /\ (ret'.op = "read_sample" /\ ~conn_opt) => UNCHANGED << own_sample_buffer, memory, ub >>
            /\ (ret'.op = "read_sample" /\ conn_opt) => sample'.size = 0 /\ LiveBufs' = {}
       /\ (ReturnsAtOnce("open") /\ conn_opt) => ret'.cls = "seq"
       /\ (ReturnsAtOnce("start") /\ ~conn_opt) => ret'.cls = "seq"
       /\ (ReturnsAtOnce("close") /\ ~conn_opt) => ret'.cls = "seq"]_vars

\* open was refused while a frame was partly received
C21_Witness ==
    /\ ret = Ret("open", TunnelErr("stream already opened"), "seq")
    /\ state_opt.tag = "ReceivingSample" /\ Len(state_opt.data) > 0
    /\ req_type_opt.some


\* the payload of frame k as the device sent it
Payload(k) == [j \in 1..frames[k] |-> BodyByte(k, j)]

\* C22: the k-th successful read_sample carries the track id, the flags and
\* the payload of the k-th frame of the stream: no frame is skipped,
\* duplicated or merged with its neighbour.
C22_FramesInStreamOrder ==
    (ReadReturned /\ ret.cls = "ok") =>
        /\ delivered \in 1..NFrames
        /\ sample.itrack = delivered
        /\ sample.flags = 2 * delivered
        /\ sample.size = frames[delivered]
        /\ sample.size > 0 => heap[sample.buffer].bytes = Payload(delivered)


\* C23: the size of a delivered sample is the byte length of its buffer for
\* every length a header can declare: it is never negative or wrapped, and
\* the release step frees every non-empty buffer.
C23_SizeIsBufferLength ==
    arg.fn = "set_buffer" =>
        /\ out.size >= 0
        /\ Usize(out.size) = arg.len
        /\ arg.len # Usize(0) => out.freed

====
